---- MODULE Spec2Model ----
(***************************************************************************)
(* Spaced-repetition review scheduling: the SM-2 variant of                *)
(* src/utils/spacedRepetition.ts and the review_schedules store built on   *)
(* it (upsertQuestionSchedule and the queries over the table).             *)
(*                                                                         *)
(* Time is counted in hours: one day (24*60*60*1000 ms in the source) is   *)
(* Day == 24 clock units.  Date <-> ISO-8601 string conversions            *)
(* (toISOString / new Date(iso)) keep the full millisecond resolution of a *)
(* Date and ISO strings of equal length compare like the instants they     *)
(* denote, so a timestamp is one integer throughout.                       *)
(*                                                                         *)
(* Ease factors are IEEE-754 doubles in the source.  Every ease factor the *)
(* program handles lies within rounding error of a two-decimal number, so  *)
(* a double is the record [cent |-> c, err |-> e] that denotes the number  *)
(*        c/100 + e * Ulp25        with Ulp25 = 2^-56 / 25.                *)
(* c/100 is c * 2^54 units of Ulp25, doubles in [1,2) are the multiples of *)
(* 400 units, doubles in [2,4) the multiples of 800 units, and so on; the  *)
(* rounding of a sum to the nearest double (ties to even) is computed on   *)
(* the residues of these integers.                                         *)
(***************************************************************************)
EXTENDS Integers, Sequences, FiniteSets, TLC

VARIABLES now, call, schedules, questions, study_topics, expected, history,
          attempts, queries, outcome

vars == <<now, call, schedules, questions, study_topics, expected, history,
          attempts, queries, outcome>>

-----------------------------------------------------------------------------
(* Bounds of the model *)

MaxChain == 3          \* attempts folded one after another from an absent schedule
MaxReps == 2           \* largest repetitions of a hand-made previous schedule
MaxStreak == 4         \* largest correctStreak of a hand-made previous schedule
MaxBase == 12          \* largest base interval passed directly to the adjuster
MaxInterval == 380     \* a chain is not continued past this many days
MaxAttempts == 2       \* upserts performed on the store
MaxSkew == 1           \* clock units that may pass between two clock reads of one call
MaxClock == 48         \* the store's clock stops advancing here
MaxLimit == 2          \* largest limit passed to getDueQuestionIds
MaxQueries == 1        \* due queries made in one behaviour

Day == 24

-----------------------------------------------------------------------------
(* Optional values: JavaScript undefined / null is <<>>, a value v is <<v>> *)

Undefined == <<>>
Null == <<>>
Some(v) == <<v>>
\* a ?? d
Coalesce(opt, d) == IF opt = <<>> THEN d ELSE opt[1]

Max(a, b) == IF a >= b THEN a ELSE b
Min(a, b) == IF a <= b THEN a ELSE b

\* Math.round(n / d) for d > 0: floor(n/d + 1/2)
RoundDiv(n, d) == (2 * n + d) \div (2 * d)
\* Math.ceil(n / d) for d > 0
CeilDiv(n, d) == 0 - ((0 - n) \div d)

-----------------------------------------------------------------------------
(* Tags.  "outra" / "other" stand for any tag the switch statements do not *)
(* list (the default branches).                                            *)

Confidences == {"certeza", "duvida", "chute", "outra"}
Rooms == {"triagem", "vermelha", "amarela", "verde", "outra"}
Difficulties == {"hard", "easy", "medium", "other"}

Contexts == [isCorrect : BOOLEAN, confidence : Confidences,
             room : Rooms, difficulty : Difficulties]

-----------------------------------------------------------------------------
(* IEEE-754 doubles near two-decimal numbers *)

TwoPow54Mod3200 == 384

Dbl(c, e) == [cent |-> c, err |-> e]

\* value >= b/100
DblAtLeast(c, e, b) == c > b \/ (c = b /\ e >= 0)

\* spacing of the doubles around c/100 + e*Ulp25, in units of Ulp25
DblGrid(c, e) ==
  IF DblAtLeast(c, e, 400) THEN 1600
  ELSE IF DblAtLeast(c, e, 200) THEN 800
  ELSE IF DblAtLeast(c, e, 100) THEN 400
  ELSE IF DblAtLeast(c, e, 50) THEN 200
  ELSE 100

\* the double nearest to the real number c/100 + e*Ulp25 (ties to even)
DblRound(c, e) ==
  LET g == DblGrid(c, e)
      s == c * TwoPow54Mod3200 + e
      r == s % g
      q2 == s % (2 * g)
  IN  IF 2 * r < g THEN Dbl(c, e - r)
      ELSE IF 2 * r > g THEN Dbl(c, e + g - r)
      ELSE IF q2 < g THEN Dbl(c, e - r)
      ELSE Dbl(c, e + g - r)

\* the double a decimal literal c/100 denotes
DblLit(c) == DblRound(c, 0)

DblLess(a, b) == a.cent < b.cent \/ (a.cent = b.cent /\ a.err < b.err)
DblMax(a, b) == IF DblLess(a, b) THEN b ELSE a
DblMin(a, b) == IF DblLess(b, a) THEN b ELSE a

\* a + b in double arithmetic
DblAdd(a, b) == DblRound(a.cent + b.cent, a.err + b.err)

RECURSIVE Pow2Le(_)
\* the largest power of two that is <= k, for k >= 1
Pow2Le(k) == IF k < 2 THEN 1 ELSE 2 * Pow2Le(k \div 2)

\* Math.round(n * x) for an integer n >= 1 and a double x: the product is
\* rounded to a double first; when n*cent/100 is exactly k + 1/2 the double
\* product is below the tie iff n*err is more than half a spacing below it.
RoundTimesDbl(n, x) ==
  LET p == n * x.cent
      k == p \div 100
  IN  IF p % 100 # 50 THEN RoundDiv(p, 100)
      ELSE IF k >= 1 /\ n * x.err < 0 - 200 * Pow2Le(k) THEN k
      ELSE k + 1

-----------------------------------------------------------------------------
(* src/utils/spacedRepetition.ts *)

mapQualityGuessFails(isCorrect, confidence) ==
  IF isCorrect
  THEN CASE confidence = "certeza" -> 5
         [] confidence = "duvida" -> 4
         [] confidence = "chute" -> 2
         [] OTHER -> 4
  ELSE IF confidence = "certeza" THEN 1 ELSE 2

mapQualityDefault3(isCorrect, confidence) ==
  IF isCorrect
  THEN CASE confidence = "certeza" -> 5
         [] confidence = "duvida" -> 4
         [] OTHER -> 3
  ELSE IF confidence = "certeza" THEN 1 ELSE 2

mapQuality(isCorrect, confidence) ==
  IF isCorrect
  THEN CASE confidence = "certeza" -> 5
         [] confidence = "duvida" -> 4
         [] confidence = "chute" -> 3
         [] OTHER -> 4
  ELSE IF confidence = "certeza" THEN 1 ELSE 2

getRoomMultiplierLowDefault(room) ==
  CASE room = "triagem" -> 60
    [] room = "vermelha" -> 70
    [] room = "amarela" -> 85
    [] room = "verde" -> 115
    [] OTHER -> 60

\* multipliers in hundredths
getRoomMultiplier(room) ==
  CASE room = "triagem" -> 60
    [] room = "vermelha" -> 70
    [] room = "amarela" -> 85
    [] room = "verde" -> 115
    [] OTHER -> 100

getDifficultyMultiplierSwapped(difficulty) ==
  CASE difficulty = "hard" -> 110
    [] difficulty = "easy" -> 85
    [] OTHER -> 100

getDifficultyMultiplier(difficulty) ==
  CASE difficulty = "hard" -> 85
    [] difficulty = "easy" -> 110
    [] difficulty = "medium" -> 100
    [] OTHER -> 100

\* 0.1 - (5 - quality) * (0.08 + (5 - quality) * 0.02) as the double the
\* expression evaluates to: 0.1, 0, -0.13999999999999999,
\* -0.32000000000000006, -0.54
EaseDelta(quality) ==
  LET d == 5 - quality
  IN  Dbl(10 - d * (8 + d * 2),
          CASE quality = 5 -> 10
            [] quality = 4 -> 0
            [] quality = 3 -> 26
            [] quality = 2 -> 0 - 112
            [] OTHER -> 0 - 64)

updateEaseFactorNoFloor(currentEF, quality) ==
  DblMin(DblLit(260), DblAdd(currentEF, EaseDelta(quality)))

updateEaseFactor(currentEF, quality) ==
  LET newEF == DblAdd(currentEF, EaseDelta(quality))
  IN  DblMin(DblLit(260), DblMax(DblLit(130), newEF))

calculateBaseIntervalRepsFirst(repetitions, previousInterval, easeFactor, quality) ==
  IF repetitions = 0 THEN 1
  ELSE IF repetitions = 1 THEN 6
  ELSE IF quality < 3 THEN 1
  ELSE RoundTimesDbl(previousInterval, easeFactor)

calculateBaseIntervalLate(repetitions, previousInterval, easeFactor, quality) ==
  IF quality < 3 THEN 1
  ELSE IF repetitions <= 1 THEN 1
  ELSE IF repetitions = 2 THEN 6
  ELSE RoundTimesDbl(previousInterval, easeFactor)

calculateBaseInterval(repetitions, previousInterval, easeFactor, quality) ==
  IF quality < 3 THEN 1
  ELSE IF repetitions = 0 THEN 1
  ELSE IF repetitions = 1 THEN 6
  ELSE RoundTimesDbl(previousInterval, easeFactor)

\* <<baseInterval, room multiplier, difficulty multiplier>> with
\* baseInterval in 1..1100 whose exact product ends in .5 while the double
\* baseInterval * roomMultiplier * difficultyMultiplier lies just below it
\* (0.7 and 1.15 are not binary fractions), so that Math.round rounds down
ProductBelowTie ==
  ({45, 85, 165, 175, 325, 335, 345, 355, 365, 645, 655, 665, 675, 685,
    695, 705, 715, 725} \X {70} \X {100})
  \cup ({50, 90, 110, 170, 190, 210, 330, 350, 370, 390, 410, 430, 650,
         670, 690, 710, 730, 750, 770, 790, 810, 830, 850, 870, 890}
        \X {115} \X {100})
  \cup {<<700, 70, 85>>, <<200, 115, 85>>}

\* Math.round(baseInterval * roomMultiplier * difficultyMultiplier)
RoundAdjusted(baseInterval, roomMultiplier, difficultyMultiplier) ==
  LET exact == RoundDiv(baseInterval * roomMultiplier * difficultyMultiplier, 10000)
  IN  IF <<baseInterval, roomMultiplier, difficultyMultiplier>> \in ProductBelowTie
      THEN exact - 1 ELSE exact

applyContextualAdjustmentsAnyQuality(baseInterval, context, correctStreak) ==
  LET adjustedInterval ==
        Max(1, RoundAdjusted(baseInterval, getRoomMultiplier(context.room),
                             getDifficultyMultiplier(context.difficulty)))
  IN  IF context.isCorrect /\ correctStreak >= 3
      THEN RoundDiv(adjustedInterval * 11, 10)
      ELSE adjustedInterval

applyContextualAdjustmentsNoMax(baseInterval, context, correctStreak) ==
  LET quality == mapQuality(context.isCorrect, context.confidence)
      adjustedInterval ==
        RoundAdjusted(baseInterval, getRoomMultiplier(context.room),
                      getDifficultyMultiplier(context.difficulty))
  IN  IF context.isCorrect /\ quality >= 4 /\ correctStreak >= 3
      THEN RoundDiv(adjustedInterval * 11, 10)
      ELSE adjustedInterval

applyContextualAdjustments(baseInterval, context, correctStreak) ==
  LET quality == mapQuality(context.isCorrect, context.confidence)
      roomMultiplier == getRoomMultiplier(context.room)
      difficultyMultiplier == getDifficultyMultiplier(context.difficulty)
      adjustedInterval ==
        Max(1, RoundAdjusted(baseInterval, roomMultiplier, difficultyMultiplier))
  IN  IF context.isCorrect /\ quality >= 4 /\ correctStreak >= 3
      THEN RoundDiv(adjustedInterval * 11, 10)
      ELSE adjustedInterval

\* previousSchedule?.field : previousSchedule is Null or Some(record), the
\* record's fields are themselves optional values
PrevField(previousSchedule, field) ==
  IF previousSchedule = Null THEN Undefined ELSE previousSchedule[1][field]

newRepetitionsKept(prevReps, quality) == prevReps + 1

\* let newRepetitions = ...: reset on poor performance, else count up
newRepetitions(prevReps, quality) == IF quality < 3 THEN 0 ELSE prevReps + 1

newStreakKept(isCorrect, prevStreak) == IF isCorrect THEN prevStreak + 1 ELSE prevStreak

\* const newStreak = context.isCorrect ? prevStreak + 1 : 0
newStreak(isCorrect, prevStreak) == IF isCorrect THEN prevStreak + 1 ELSE 0

\* clock is the value Date.now() returns inside the call
computeNextSchedule(previousSchedule, context, clock) ==
  LET quality == mapQuality(context.isCorrect, context.confidence)
      prevReps == Coalesce(PrevField(previousSchedule, "repetitions"), 0)
      prevInterval == Coalesce(PrevField(previousSchedule, "intervalDays"), 1)
      prevEF == Coalesce(PrevField(previousSchedule, "easeFactor"), DblLit(250))
      prevStreak == Coalesce(PrevField(previousSchedule, "correctStreak"), 0)
      newEF == updateEaseFactor(prevEF, quality)
      reps == newRepetitions(prevReps, quality)
      baseInterval == calculateBaseInterval(reps, prevInterval, newEF, quality)
      streak == newStreak(context.isCorrect, prevStreak)
      finalInterval == applyContextualAdjustments(baseInterval, context, streak)
  IN  [repetitions |-> reps,
       intervalDays |-> finalInterval,
       easeFactor |-> newEF,
       nextReviewAt |-> clock + finalInterval * Day,
       correctStreak |-> streak,
       lastResult |-> quality]

getDaysUntilReviewFloor(nextReviewAt, clock) == (nextReviewAt - clock) \div Day

getDaysUntilReview(nextReviewAt, clock) == CeilDiv(nextReviewAt - clock, Day)

getUrgencyLevelStrict(nextReviewAt, clock) ==
  LET daysUntil == getDaysUntilReview(nextReviewAt, clock)
  IN  IF daysUntil < 0 THEN "overdue"
      ELSE IF daysUntil = 0 THEN "due-today"
      ELSE IF daysUntil < 2 THEN "due-soon"
      ELSE "scheduled"

getUrgencyLevel(nextReviewAt, clock) ==
  LET daysUntil == getDaysUntilReview(nextReviewAt, clock)
  IN  IF daysUntil < 0 THEN "overdue"
      ELSE IF daysUntil = 0 THEN "due-today"
      ELSE IF daysUntil <= 2 THEN "due-soon"
      ELSE "scheduled"

-----------------------------------------------------------------------------
(* The engine on its own: one call of one function.  The initial state     *)
(* holds the function and its arguments, the call's action evaluates it.   *)
(* A result of computeNextSchedule that started from an absent schedule    *)
(* can be fed back as the previous schedule of a further attempt.          *)

ClockSamples == {0, 17}
EaseSamples == {100, 130, 200, 250, 300}
IntervalSamples == {1, 5, 6, 10}
BaseSamples == (0 - 2 .. MaxBase) \cup {21, 45, 50}
DueOffsets == 0 - 2 * Day - 1 .. 3 * Day + 1

\* hand-made previous schedules; ease factors are decimal literals
PreviousSchedules ==
  { Some([repetitions |-> Some(r), intervalDays |-> Some(i),
          easeFactor |-> Some(DblLit(c)), correctStreak |-> Some(s)]) :
      <<r, i, c, s>> \in (0 .. MaxReps) \X IntervalSamples \X EaseSamples \X (0 .. MaxStreak) }

\* the fields of a result that a caller passes back as previousSchedule
AsPrevious(update) ==
  Some([repetitions |-> Some(update.repetitions),
        intervalDays |-> Some(update.intervalDays),
        easeFactor |-> Some(update.easeFactor),
        correctStreak |-> Some(update.correctStreak)])

Pending(fn, arg) == [fn |-> fn, arg |-> arg, done |-> FALSE, res |-> <<>>, depth |-> 0]

PendingCalls ==
  { Pending("mapQuality", a) : a \in [isCorrect : BOOLEAN, confidence : Confidences] }
  \cup { Pending("updateEaseFactor", a) :
           a \in [currentEF : {DblLit(c) : c \in 100 .. 399}, quality : 1 .. 5] }
  \cup { Pending("calculateBaseInterval", a) :
           a \in [repetitions : 0 .. MaxReps + 1, previousInterval : IntervalSamples,
                  easeFactor : {DblLit(c) : c \in EaseSamples \cap (130 .. 260)},
                  quality : 1 .. 5] }
  \cup { Pending("applyContextualAdjustments", a) :
           a \in [baseInterval : BaseSamples, context : Contexts,
                  correctStreak : 0 .. MaxStreak] }
  \cup { Pending("computeNextSchedule", a) :
           a \in [previousSchedule : {Null} \cup PreviousSchedules, context : Contexts] }
  \cup { Pending("getUrgencyLevel", a) : a \in [offset : DueOffsets] }

NoOutcome == [op |-> "none"]

InitEngine ==
  /\ now \in ClockSamples
  /\ call \in PendingCalls
  /\ schedules = {}
  /\ questions = [q \in {} |-> "none"]
  /\ study_topics = {}
  /\ expected = [q \in {} |-> Null]
  /\ history = [q \in {} |-> <<>>]
  /\ queries = 0
  /\ attempts = 0
  /\ outcome = NoOutcome

Finish(result) == call' = [call EXCEPT !.done = TRUE, !.res = Some(result)]

StoreUnchanged ==
  UNCHANGED <<now, schedules, questions, study_topics, expected, history,
              attempts, queries, outcome>>

MapQualityCall ==
  /\ call.fn = "mapQuality" /\ ~call.done
  /\ Finish(mapQuality(call.arg.isCorrect, call.arg.confidence))
  /\ StoreUnchanged

UpdateEaseFactorCall ==
  /\ call.fn = "updateEaseFactor" /\ ~call.done
  /\ Finish(updateEaseFactor(call.arg.currentEF, call.arg.quality))
  /\ StoreUnchanged

CalculateBaseIntervalCall ==
  /\ call.fn = "calculateBaseInterval" /\ ~call.done
  /\ Finish(calculateBaseInterval(call.arg.repetitions, call.arg.previousInterval,
                                  call.arg.easeFactor, call.arg.quality))
  /\ StoreUnchanged

ApplyContextualAdjustmentsCall ==
  /\ call.fn = "applyContextualAdjustments" /\ ~call.done
  /\ Finish(applyContextualAdjustments(call.arg.baseInterval, call.arg.context,
                                       call.arg.correctStreak))
  /\ StoreUnchanged

ComputeNextScheduleCall ==
  /\ call.fn = "computeNextSchedule" /\ ~call.done
  /\ call' = [call EXCEPT
       !.done = TRUE,
       !.res = Some(computeNextSchedule(call.arg.previousSchedule, call.arg.context, now)),
       !.depth = IF call.arg.previousSchedule = Null THEN 1 ELSE 0]
  /\ StoreUnchanged

\* a further attempt on the item whose schedule the last call produced
ComputeNextScheduleChain(context) ==
  /\ call.fn = "computeNextSchedule" /\ call.done
  /\ call.depth >= 1 /\ call.depth < MaxChain
  /\ call.res[1].intervalDays <= MaxInterval
  /\ LET previous == AsPrevious(call.res[1])
     IN  call' = [fn |-> "computeNextSchedule",
                  arg |-> [previousSchedule |-> previous, context |-> context],
                  done |-> TRUE,
                  res |-> Some(computeNextSchedule(previous, context, now)),
                  depth |-> call.depth + 1]
  /\ StoreUnchanged

GetUrgencyLevelCall ==
  /\ call.fn = "getUrgencyLevel" /\ ~call.done
  /\ Finish(getUrgencyLevel(now + call.arg.offset, now))
  /\ StoreUnchanged

NextEngine ==
  \/ MapQualityCall
  \/ UpdateEaseFactorCall
  \/ CalculateBaseIntervalCall
  \/ ApplyContextualAdjustmentsCall
  \/ ComputeNextScheduleCall
  \/ \E context \in Contexts : ComputeNextScheduleChain(context)
  \/ GetUrgencyLevelCall

SpecEngine == InitEngine /\ [][NextEngine]_vars

-----------------------------------------------------------------------------
(* The review_schedules store (db/crud/reviews).  The table is a set of    *)
(* rows, a row is a record keyed by column name.  questions tells of each  *)
(* question id whether it was never drawn ("none"), names a row of the     *)
(* questions table ("stored") or named one that was deleted ("deleted"):   *)
(* an id is question_<Date.now()>_<random> and is not drawn twice.         *)
(* study_topics is the topic table; StudyTopics is its content when the    *)
(* schedules are written: q1 belongs to topic t1 of subject s1, q2 names a *)
(* topic that has no row in study_topics.                                  *)

Questions == {[id |-> "q1", topicId |-> "t1"], [id |-> "q2", topicId |-> "t2"]}
StudyTopics == {[id |-> "t1", name |-> "T1", subject_id |-> "s1"]}
StudySubjects == {[id |-> "s1", name |-> "S1"], [id |-> "s2", name |-> "S2"]}
TickSteps == {Day}

\* attempt contexts offered to the store
StoreContexts ==
  {c \in Contexts : /\ c.confidence \in {"certeza", "chute"}
                    /\ c.room = "amarela"
                    /\ c.difficulty = "medium"}

\* column order of review_schedules, as SELECT * returns it in db.exec
Columns == <<"id", "item_type", "item_id", "topic_id", "subject_id",
             "repetitions", "interval_days", "ease_factor", "correct_streak",
             "last_review", "next_review_at", "last_result", "last_confidence",
             "last_room", "created_at", "updated_at">>

\* Statement.getAsObject(): the current row as an object whose properties are
\* the column names (read as row.id, row.item_id elsewhere in the repository)
getAsObject(row) == row

IndexByPosition(obj, key) ==
  CASE key = "0" -> Some(obj.id)
    [] key = "5" -> Some(obj.repetitions)
    [] key = "6" -> Some(obj.interval_days)
    [] key = "7" -> Some(obj.ease_factor)
    [] key = "8" -> Some(obj.correct_streak)
    [] key = "14" -> obj.created_at
    [] OTHER -> Undefined

\* obj[key] on a JavaScript object: undefined unless key is a property
Index(obj, key) == IF key \in DOMAIN obj THEN Some(obj[key]) ELSE Undefined

\* row[i] on a row of db.exec(...)[0].values, an array in column order
ValueAt(row, i) == row[Columns[i + 1]]

SelectByItemOtherType(table, itemId) ==
  {r \in table : r.item_type = "topic" /\ r.item_id = itemId}

\* SELECT * FROM review_schedules WHERE item_type = 'question' AND item_id = ?
SelectByItem(table, itemId) ==
  {r \in table : r.item_type = "question" /\ r.item_id = itemId}

\* SELECT t.subject_id FROM study_topics t WHERE t.id = ?  ... || null
SubjectOfTopic(topicId) ==
  IF \E t \in study_topics : t.id = topicId
  THEN Some((CHOOSE t \in study_topics : t.id = topicId).subject_id)
  ELSE Null

\* the schedule object the call builds (lines 57-74); t is the second clock read
ScheduleObject(question, context, existing, nextSchedule, scheduleId, t) ==
  [id |-> scheduleId,
   itemType |-> "question",
   itemId |-> question.id,
   topicId |-> question.topicId,
   subjectId |-> Undefined,
   repetitions |-> nextSchedule.repetitions,
   intervalDays |-> nextSchedule.intervalDays,
   easeFactor |-> nextSchedule.easeFactor,
   correctStreak |-> nextSchedule.correctStreak,
   lastReview |-> Some(t),
   nextReviewAt |-> nextSchedule.nextReviewAt,
   lastResult |-> nextSchedule.lastResult,
   lastConfidence |-> context.confidence,
   lastRoom |-> context.room,
   \* new Date(undefined) is an Invalid Date: no instant
   createdAt |-> IF existing # Null THEN Index(existing[1], "14") ELSE Some(t),
   updatedAt |-> Some(t)]

\* UPDATE review_schedules SET ... WHERE id = ?  An undefined id is either
\* rejected when it is bound or bound as NULL; no row has id = NULL.
UpdateRows(table, schedule, subjectId) ==
  IF schedule.id = Undefined THEN table
  ELSE {IF r.id # schedule.id[1] THEN r
        ELSE [r EXCEPT !.repetitions = schedule.repetitions,
                       !.interval_days = schedule.intervalDays,
                       !.ease_factor = schedule.easeFactor,
                       !.correct_streak = schedule.correctStreak,
                       !.last_review = schedule.lastReview,
                       !.next_review_at = schedule.nextReviewAt,
                       !.last_result = schedule.lastResult,
                       !.last_confidence = schedule.lastConfidence,
                       !.last_room = schedule.lastRoom,
                       !.subject_id = subjectId,
                       !.updated_at = schedule.updatedAt] : r \in table}

\* INSERT INTO review_schedules (...) VALUES (...)
InsertRow(table, question, schedule, subjectId) ==
  table \cup {[id |-> schedule.id[1],
               item_type |-> "question",
               item_id |-> question.id,
               topic_id |-> question.topicId,
               subject_id |-> subjectId,
               repetitions |-> schedule.repetitions,
               interval_days |-> schedule.intervalDays,
               ease_factor |-> schedule.easeFactor,
               correct_streak |-> schedule.correctStreak,
               last_review |-> schedule.lastReview,
               next_review_at |-> schedule.nextReviewAt,
               last_result |-> schedule.lastResult,
               last_confidence |-> schedule.lastConfidence,
               last_room |-> schedule.lastRoom,
               created_at |-> schedule.createdAt,
               updated_at |-> schedule.updatedAt]}

\* One call of upsertQuestionSchedule(question, context).  A fresh id is
\* "schedule_" + Date.now() + "_" + a random suffix; the suffix is the number
\* of the call, so that no two calls draw the same one.  skew is the time
\* that passes between Date.now() inside computeNextSchedule and the later
\* new Date(); thrown tells whether binding an undefined parameter is
\* rejected by the database library.
upsertQuestionSchedule(question, context, skew, thrown) ==
  LET found == SelectByItem(schedules, question.id)
      existing == IF found = {} THEN Null
                  ELSE Some(getAsObject(CHOOSE r \in found : TRUE))
      previousSchedule ==
        IF existing # Null
        THEN Some([repetitions |-> Index(existing[1], "5"),
                   intervalDays |-> Index(existing[1], "6"),
                   easeFactor |-> Index(existing[1], "7"),
                   correctStreak |-> Index(existing[1], "8")])
        ELSE Null
      nextSchedule == computeNextSchedule(previousSchedule, context, now)
      t == now + skew
      scheduleId == IF existing # Null THEN Index(existing[1], "0")
                    ELSE Some(<<"schedule", t, attempts>>)
      schedule == ScheduleObject(question, context, existing, nextSchedule, scheduleId, t)
      subjectId == SubjectOfTopic(question.topicId)
      rejected == existing # Null /\ scheduleId = Undefined /\ thrown
  IN  /\ attempts < MaxAttempts
      /\ now + skew <= MaxClock
      /\ now' = t
      /\ schedules' = IF existing # Null
                      THEN UpdateRows(schedules, schedule, subjectId)
                      ELSE InsertRow(schedules, question, schedule, subjectId)
      /\ outcome' = [op |-> "upsertQuestionSchedule", item |-> question.id,
                     previous |-> previousSchedule,
                     status |-> IF rejected THEN "threw" ELSE "returned",
                     value |-> IF rejected THEN Null ELSE Some(schedule),
                     \* scheduleSave is obtained (line 28) and never invoked
                     scheduleSave |-> 0]
      \* what folding computeNextSchedule over the item's attempts gives
      /\ expected' = [expected EXCEPT ![question.id] =
                        AsPrevious(computeNextSchedule(@, context, now))]
      \* the attempt contexts the item was called with, in order
      /\ history' = [history EXCEPT ![question.id] = Append(@, context)]
      /\ attempts' = attempts + 1
      /\ UNCHANGED <<call, questions, study_topics, queries>>

\* One call of createQuestion(topicId, ...): question.id is the fresh id the
\* call draws; the row is inserted, the debounced save is requested once and
\* the id is returned.
createQuestion(question) ==
  /\ questions[question.id] = "none"
  /\ questions' = [questions EXCEPT ![question.id] = "stored"]
  /\ outcome' = [op |-> "createQuestion", item |-> question.id,
                 status |-> "returned", value |-> Some(question.id),
                 scheduleSave |-> 1]
  /\ UNCHANGED <<now, call, schedules, study_topics, expected, history,
                  attempts, queries>>

\* One call of deleteQuestion(questionId): DELETE FROM questions WHERE id = ?
\* and nothing else; an id that names no row deletes nothing and returns true.
deleteQuestion(questionId) ==
  /\ questions' = [questions EXCEPT ![questionId] =
                     IF @ = "stored" THEN "deleted" ELSE @]
  /\ outcome' = [op |-> "deleteQuestion", item |-> questionId,
                 status |-> "returned", value |-> Some(TRUE),
                 scheduleSave |-> 1]
  /\ UNCHANGED <<now, call, schedules, study_topics, expected, history,
                  attempts, queries>>

\* result[0].values[0] turned into a ReviewSchedule (lines 318-335)
ScheduleOfRow(row) ==
  [id |-> Some(ValueAt(row, 0)),
   itemType |-> ValueAt(row, 1),
   itemId |-> ValueAt(row, 2),
   topicId |-> ValueAt(row, 3),
   subjectId |-> ValueAt(row, 4),
   repetitions |-> ValueAt(row, 5),
   intervalDays |-> ValueAt(row, 6),
   easeFactor |-> ValueAt(row, 7),
   correctStreak |-> ValueAt(row, 8),
   lastReview |-> ValueAt(row, 9),
   nextReviewAt |-> ValueAt(row, 10),
   lastResult |-> ValueAt(row, 11),
   lastConfidence |-> ValueAt(row, 12),
   lastRoom |-> ValueAt(row, 13),
   createdAt |-> ValueAt(row, 14),
   updatedAt |-> ValueAt(row, 15)]

getScheduleByQuestionId(questionId) ==
  LET found == SelectByItem(schedules, questionId)
      row == CHOOSE r \in found : TRUE
  IN  /\ outcome' =
           [op |-> "getScheduleByQuestionId", item |-> questionId,
            status |-> "returned",
            value |-> IF found = {} THEN Null ELSE Some(ScheduleOfRow(row))]
      /\ UNCHANGED <<now, call, schedules, questions, study_topics, expected,
                      history, attempts, queries>>

\* the wall clock advances between calls
Tick(step) ==
  /\ now + step <= MaxClock
  /\ now' = now + step
  /\ UNCHANGED <<call, schedules, questions, study_topics, expected, history,
                  attempts, queries, outcome>>

Init ==
  /\ now = 0
  /\ call = Pending("none", <<>>)
  /\ schedules = {}
  \* the questions were created before
  /\ questions = [id \in {q.id : q \in Questions} |-> "stored"]
  /\ study_topics = StudyTopics
  /\ expected = [id \in {q.id : q \in Questions} |-> Null]
  /\ history = [id \in {q.id : q \in Questions} |-> <<>>]
  /\ queries = 0
  /\ attempts = 0
  /\ outcome = NoOutcome

Next ==
  \/ \E question \in Questions, context \in StoreContexts,
        skew \in 0 .. MaxSkew, thrown \in BOOLEAN :
       upsertQuestionSchedule(question, context, skew, thrown)
  \/ \E question \in Questions : getScheduleByQuestionId(question.id)
  \/ \E step \in TickSteps : Tick(step)

Spec == Init /\ [][Next]_vars

\* The store together with the questions table (db/crud/questions): no
\* question exists at first, questions are created, answered and deleted.
InitQuestions ==
  /\ now = 0
  /\ call = Pending("none", <<>>)
  /\ schedules = {}
  /\ questions = [id \in {q.id : q \in Questions} |-> "none"]
  /\ study_topics = StudyTopics
  /\ expected = [id \in {q.id : q \in Questions} |-> Null]
  /\ history = [id \in {q.id : q \in Questions} |-> <<>>]
  /\ queries = 0
  /\ attempts = 0
  /\ outcome = NoOutcome

NextQuestions ==
  \/ \E question \in Questions : createQuestion(question)
  \/ \E question \in Questions : deleteQuestion(question.id)
  \/ \E question \in Questions, context \in StoreContexts,
        skew \in 0 .. MaxSkew, thrown \in BOOLEAN :
       upsertQuestionSchedule(question, context, skew, thrown)
  \/ \E step \in TickSteps : Tick(step)

SpecQuestions == InitQuestions /\ [][NextQuestions]_vars

-----------------------------------------------------------------------------
(* The due queries over review_schedules (getDueQuestionIds, getDueByEnemy, *)
(* getReviewStats).  A list of ids is an optional set: the SQL IN (...)    *)
(* looks at membership only.  The order of rows that the ORDER BY leaves   *)
(* tied is the database's choice.                                          *)

\* subjectIds && subjectIds.length > 0
HasSubjectFilter(subjectIds) == subjectIds # Undefined /\ subjectIds[1] # {}

\* value IN (?, ?, ...): never true of NULL
InSubjects(value, subjectIds) == value # Null /\ value[1] \in subjectIds[1]

DueRowsStrict(table, at, subjectIds) ==
  {r \in table :
     /\ r.item_type = "question"
     /\ r.next_review_at < at
     /\ HasSubjectFilter(subjectIds) => InSubjects(r.subject_id, subjectIds)}

\* WHERE rs.item_type = 'question' AND rs.next_review_at <= ?
\*   [AND rs.subject_id IN (...)]
DueRows(table, at, subjectIds) ==
  {r \in table :
     /\ r.item_type = "question"
     /\ r.next_review_at <= at
     /\ HasSubjectFilter(subjectIds) => InSubjects(r.subject_id, subjectIds)}

\* the orders in which the elements of a finite set can be listed
SeqsOf(S) ==
  {f \in [1 .. Cardinality(S) -> S] :
     \A i, j \in 1 .. Cardinality(S) : i # j => f[i] # f[j]}

\* ORDER BY rs.next_review_at ASC
AscendingByNextReview(rows) ==
  {f \in SeqsOf(rows) :
     \A i \in 1 .. Cardinality(rows) - 1 :
       f[i].next_review_at <= f[i + 1].next_review_at}

\* SELECT DISTINCT rs.item_id ... ORDER BY rs.next_review_at: of the rows of
\* one item the first one the table scan meets stands for the item, and the
\* items are then ordered by the next_review_at of that row.  The scan order
\* is the order of insertion, which the table, a set, does not record: any
\* row of the item may be the one.
Distinct(rows) ==
  {reps \in SUBSET rows :
     \A r \in rows : Cardinality({x \in reps : x.item_id = r.item_id}) = 1}

\* ${options.limit ? ` LIMIT ${options.limit}` : ''}: 0 is falsy
Limit(s, limit) ==
  IF limit # Undefined /\ limit[1] # 0
  THEN SubSeq(s, 1, Min(limit[1], Len(s)))
  ELSE s

\* the lists getDueQuestionIds may return at clock reading `at`
DueQuestionIds(table, at, options) ==
  UNION {{Limit([i \in 1 .. Cardinality(reps) |-> ordered[i].item_id],
                options.limit) : ordered \in AscendingByNextReview(reps)} :
           reps \in Distinct(DueRows(table, at, options.subjectIds))}

\* LEFT JOIN study_topics t ON rs.topic_id = t.id
TopicOf(r) ==
  IF \E t \in study_topics : t.id = r.topic_id
  THEN Some(CHOOSE t \in study_topics : t.id = r.topic_id)
  ELSE Null

\* LEFT JOIN study_subjects s ON t.subject_id = s.id
SubjectOf(topic) ==
  IF topic # Null /\ \E sub \in StudySubjects : sub.id = topic[1].subject_id
  THEN Some(CHOOSE sub \in StudySubjects : sub.id = topic[1].subject_id)
  ELSE Null

\* a column of a LEFT JOINed row: NULL when the join found no row
Column(joined, name) == IF joined = Null THEN Null ELSE Some(joined[1][name])

\* GROUP BY rs.topic_id, t.name, s.id, s.name, rs.last_room
EnemyGroupKey(r) ==
  <<r.topic_id, Column(TopicOf(r), "name"), Column(SubjectOf(TopicOf(r)), "id"),
    Column(SubjectOf(TopicOf(r)), "name"), r.last_room>>

\* the joined rows getDueByEnemy selects
EnemyRows(table, at, subjectIds) ==
  {r \in table :
     /\ r.item_type = "question"
     /\ r.next_review_at <= at
     /\ HasSubjectFilter(subjectIds)
          => InSubjects(Column(SubjectOf(TopicOf(r)), "id"), subjectIds)}

UrgentCountInclusive(group, urgentThreshold) ==
  Cardinality({r \in group : r.next_review_at <= urgentThreshold})

\* COUNT(CASE WHEN rs.next_review_at < ? THEN 1 END)
UrgentCount(group, urgentThreshold) ==
  Cardinality({r \in group : r.next_review_at < urgentThreshold})

\* one DueReviewSummary per group of the GROUP BY (lines 217-225), as a
\* function of the group's key: two groups may give equal summaries, a
\* last_room of '' being reported as 'triagem'
EnemySummaries(table, at, urgentThreshold, subjectIds) ==
  [k \in {EnemyGroupKey(r) : r \in EnemyRows(table, at, subjectIds)} |->
     LET group == {r \in EnemyRows(table, at, subjectIds) : EnemyGroupKey(r) = k}
     IN  [topicId |-> k[1],
          topicName |-> k[2],
          subjectId |-> k[3],
          subjectName |-> k[4],
          dueCount |-> Cardinality(group),
          urgentCount |-> UrgentCount(group, urgentThreshold),
          averageRoom |-> IF k[5] = "" THEN "triagem" ELSE k[5]]]

\* ORDER BY urgent_count DESC, due_count DESC: the lists of the summaries,
\* one element per group
ByUrgency(summaries) ==
  {[i \in 1 .. Cardinality(DOMAIN summaries) |-> summaries[f[i]]] :
     f \in {g \in SeqsOf(DOMAIN summaries) :
              \A i \in 1 .. Cardinality(DOMAIN summaries) - 1 :
                \/ summaries[g[i]].urgentCount > summaries[g[i + 1]].urgentCount
                \/ /\ summaries[g[i]].urgentCount = summaries[g[i + 1]].urgentCount
                   /\ summaries[g[i]].dueCount >= summaries[g[i + 1]].dueCount}}

\* GROUP BY rs.last_room, rs.subject_id: the groups of the due rows
StatGroups(due) ==
  {{r \in due : r.last_room = k[1] /\ r.subject_id = k[2]} :
     k \in {<<r.last_room, r.subject_id>> : r \in due}}

RECURSIVE StreakSum(_)
StreakSum(rows) ==
  IF rows = {} THEN 0
  ELSE LET r == CHOOSE x \in rows : TRUE
       IN  r.correct_streak + StreakSum(rows \ {r})

RECURSIVE MaxStreakOf(_)
\* MAX(rs.correct_streak) folded with longestStreak, which starts at 0
MaxStreakOf(rows) ==
  IF rows = {} THEN 0
  ELSE LET r == CHOOSE x \in rows : TRUE
       IN  Max(r.correct_streak, MaxStreakOf(rows \ {r}))

RECURSIVE SizeProduct(_)
SizeProduct(groups) ==
  IF groups = {} THEN 1
  ELSE LET g == CHOOSE x \in groups : TRUE
       IN  Cardinality(g) * SizeProduct(groups \ {g})

RECURSIVE SumOfAverages(_, _)
\* totalStreak += avgStreak, in units of 1/scale; every group size divides scale
SumOfAverages(groups, scale) ==
  IF groups = {} THEN 0
  ELSE LET g == CHOOSE x \in groups : TRUE
       IN  StreakSum(g) * (scale \div Cardinality(g))
             + SumOfAverages(groups \ {g}, scale)

\* averageStreak = totalStreak / count (lines 286-300), as the exact quotient
\* num / den that the double arithmetic of AVG, += and / approximates
AverageOfAverages(groups) ==
  IF groups = {} THEN [num |-> 0, den |-> 1]
  ELSE [num |-> SumOfAverages(groups, SizeProduct(groups)),
        den |-> SizeProduct(groups) * Cardinality(groups)]

\* the earliest MIN(rs.next_review_at) over the groups (lines 293-295)
EarliestReview(due) ==
  IF due = {} THEN Undefined
  ELSE Some(CHOOSE t \in {r.next_review_at : r \in due} :
              \A r \in due : t <= r.next_review_at)

\* the ReviewStats object built from the grouped rows (lines 259-303)
ReviewStats(table, at, subjectIds) ==
  LET due == DueRows(table, at, subjectIds)
  IN  [totalDue |-> Cardinality(due),
       dueByRoom |-> [room \in {"triagem", "vermelha", "amarela", "verde"} |->
                        Cardinality({r \in due : r.last_room = room})],
       dueBySubject |-> [sub \in {r.subject_id[1] : r \in {x \in due : x.subject_id # Null}} |->
                           Cardinality({r \in due : r.subject_id = Some(sub)})],
       nextReviewDate |-> EarliestReview(due),
       streakData |-> [averageStreak |-> AverageOfAverages(StatGroups(due)),
                       longestStreak |-> MaxStreakOf(due)]]

\* One call of getDueQuestionIds(options): the clock is read once.
getDueQuestionIds(options) ==
  /\ queries < MaxQueries
  /\ \E result \in DueQuestionIds(schedules, now, options) :
       outcome' = [op |-> "getDueQuestionIds", options |-> options,
                   at |-> now, value |-> result]
  /\ queries' = queries + 1
  /\ UNCHANGED <<now, call, schedules, questions, study_topics, expected,
                  history, attempts>>

\* One call of getDueByEnemy(subjectIds): `now` is read first and the urgency
\* threshold is taken from a second clock read, skew units later.
getDueByEnemy(subjectIds, skew) ==
  /\ queries < MaxQueries
  /\ \E result \in ByUrgency(EnemySummaries(schedules, now, now + skew - Day,
                                           subjectIds)) :
       outcome' = [op |-> "getDueByEnemy", subjectIds |-> subjectIds,
                   at |-> now, urgentAt |-> now + skew, value |-> result]
  /\ now' = now + skew
  /\ queries' = queries + 1
  /\ UNCHANGED <<call, schedules, questions, study_topics, expected, history,
                  attempts>>

\* One call of getReviewStats(subjectIds).
getReviewStats(subjectIds) ==
  /\ queries < MaxQueries
  /\ outcome' = [op |-> "getReviewStats", subjectIds |-> subjectIds,
                 at |-> now, value |-> ReviewStats(schedules, now, subjectIds)]
  /\ queries' = queries + 1
  /\ UNCHANGED <<now, call, schedules, questions, study_topics, expected,
                  history, attempts>>

\* The study plan changes after schedules were written: a topic is put under
\* another subject, or its row is removed.  review_schedules keeps the
\* subject_id it was given when the schedule was written.
moveTopic(topicId, subjectId) ==
  /\ \E t \in study_topics : t.id = topicId /\ t.subject_id # subjectId
  /\ study_topics' = {IF t.id = topicId THEN [t EXCEPT !.subject_id = subjectId]
                      ELSE t : t \in study_topics}
  /\ UNCHANGED <<now, call, schedules, questions, expected, history, attempts,
                  queries, outcome>>

deleteTopic(topicId) ==
  /\ \E t \in study_topics : t.id = topicId
  /\ study_topics' = {t \in study_topics : t.id # topicId}
  /\ UNCHANGED <<now, call, schedules, questions, expected, history, attempts,
                  queries, outcome>>

\* The stores the queries are run on: every question of QueryQuestions was
\* either never answered or answered once, at clock 0 and in the order
\* q1, q2, q3, with any context of QueryContexts; the clock then advanced.
QueryQuestions == Questions \cup {[id |-> "q3", topicId |-> "t1"]}
QuestionOrder == <<"q1", "q2", "q3">>
QueryContexts ==
  {c \in Contexts : /\ c.confidence = "certeza"
                    /\ c.room \in {"vermelha", "amarela"}
                    /\ c.difficulty = "medium"}
QueryClock == {Day - 1, Day, 2 * Day - 1, 2 * Day, 2 * Day + 1, 5 * Day}
SubjectFilters == {Undefined, Some({}), Some({"s1"}), Some({"s2"})}
Limits == {Undefined} \cup {Some(n) : n \in 0 .. MaxLimit}

\* the row the first upsert of a question leaves, that upsert being call
\* number `number` on the store, made at clock 0
FirstRow(question, context, number) ==
  InsertRow({}, question,
            ScheduleObject(question, context, Null,
                           computeNextSchedule(Null, context, 0),
                           Some(<<"schedule", 0, number>>), 0),
            SubjectOfTopic(question.topicId))

\* how many questions before this one were answered
CallNumber(answers, id) ==
  Cardinality({i \in 1 .. Len(QuestionOrder) :
                 /\ answers[QuestionOrder[i]] # Null
                 /\ \E j \in 1 .. Len(QuestionOrder) :
                      QuestionOrder[j] = id /\ i < j})

InitQuery ==
  \E answers \in [{q.id : q \in QueryQuestions} ->
                    {Null} \cup {Some(c) : c \in QueryContexts}] :
    /\ now \in QueryClock
    /\ call = Pending("none", <<>>)
    /\ study_topics = StudyTopics
    /\ questions = [id \in DOMAIN answers |-> "stored"]
    /\ schedules = UNION {FirstRow(q, answers[q.id][1], CallNumber(answers, q.id)) :
                            q \in {x \in QueryQuestions : answers[x.id] # Null}}
    /\ expected = [id \in DOMAIN answers |->
                     IF answers[id] = Null THEN Null
                     ELSE AsPrevious(computeNextSchedule(Null, answers[id][1], 0))]
    /\ history = [id \in DOMAIN answers |->
                    IF answers[id] = Null THEN <<>> ELSE <<answers[id][1]>>]
    /\ attempts = Cardinality({id \in DOMAIN answers : answers[id] # Null})
    /\ queries = 0
    /\ outcome = NoOutcome

NextQuery ==
  \/ \E subjectIds \in SubjectFilters, limit \in Limits :
       getDueQuestionIds([subjectIds |-> subjectIds, limit |-> limit])
  \/ \E subjectIds \in SubjectFilters, skew \in 0 .. MaxSkew :
       getDueByEnemy(subjectIds, skew)
  \/ \E subjectIds \in SubjectFilters : getReviewStats(subjectIds)
  \/ \E t \in StudyTopics, sub \in StudySubjects : moveTopic(t.id, sub.id)
  \/ \E t \in StudyTopics : deleteTopic(t.id)

SpecQuery == InitQuery /\ [][NextQuery]_vars

\* C1: after any sequence of upserts for one item the stored schedule equals
\* the fold of computeNextSchedule over the item's attempt contexts, starting
\* from the default state: every upsert on an existing schedule starts from
\* the stored repetitions, intervalDays, easeFactor and correctStreak and
\* overwrites the row.
C1_StoredScheduleIsFold ==
  \A r \in schedules :
    /\ expected[r.item_id] # Null
    /\ r.repetitions = expected[r.item_id][1].repetitions[1]
    /\ r.interval_days = expected[r.item_id][1].intervalDays[1]
    /\ r.ease_factor = expected[r.item_id][1].easeFactor[1]
    /\ r.correct_streak = expected[r.item_id][1].correctStreak[1]

\* the rows of review_schedules that belong to one question
RowsOf(itemId) ==
  {r \in schedules : r.item_type = "question" /\ r.item_id = itemId}

\* C11: in every state reachable by upserts over any questions the store
\* holds at most one schedule row per (itemType, itemId): the first upsert
\* for an item inserts exactly one row and every later upsert inserts none.
C11_OneRowPerItem ==
  \A q \in Questions :
    Cardinality(RowsOf(q.id)) = IF history[q.id] = <<>> THEN 0 ELSE 1

C11_Witness ==
  \E q \in Questions :
    /\ Len(history[q.id]) >= 2
    /\ Cardinality(RowsOf(q.id)) = 1
    /\ Cardinality(schedules) = 1

\* C12: the record upsert returns is the persisted record: right after the
\* call returns, getScheduleByQuestionId(question.id) yields a record with
\* the same id, subjectId, repetitions, intervalDays, easeFactor,
\* correctStreak, lastResult, lastConfidence, lastRoom, nextReviewAt and
\* createdAt, on the first insert and on an update alike.
C12_ReturnedIsPersisted ==
  (outcome.op = "upsertQuestionSchedule" /\ outcome.status = "returned") =>
    /\ RowsOf(outcome.item) # {}
    /\ \A row \in RowsOf(outcome.item) :
         LET persisted == ScheduleOfRow(row)
             returned == outcome.value[1]
         IN  /\ returned.id = persisted.id
             /\ returned.subjectId = persisted.subjectId
             /\ returned.repetitions = persisted.repetitions
             /\ returned.intervalDays = persisted.intervalDays
             /\ returned.easeFactor = persisted.easeFactor
             /\ returned.correctStreak = persisted.correctStreak
             /\ returned.lastResult = persisted.lastResult
             /\ returned.lastConfidence = persisted.lastConfidence
             /\ returned.lastRoom = persisted.lastRoom
             /\ returned.nextReviewAt = persisted.nextReviewAt
             /\ returned.createdAt = persisted.createdAt

\* C13: upsert is idempotent under a retry of the same logical attempt: after
\* upsert was invoked two or more times for one item with the same context,
\* the stored repetitions, correctStreak, easeFactor and intervalDays equal
\* what a single invocation produces from an absent schedule.
C13_RetryIdempotent ==
  \A q \in Questions : \A c \in StoreContexts :
    (/\ Len(history[q.id]) >= 2
     /\ \A i \in DOMAIN history[q.id] : history[q.id][i] = c)
      => /\ RowsOf(q.id) # {}
         /\ \A r \in RowsOf(q.id) :
              LET single == computeNextSchedule(Null, c, 0)
              IN  /\ r.repetitions = single.repetitions
                  /\ r.correct_streak = single.correctStreak
                  /\ r.ease_factor = single.easeFactor
                  /\ r.interval_days = single.intervalDays

C13_Witness ==
  \E q \in Questions : \E c \in StoreContexts :
    /\ c.isCorrect
    /\ history[q.id] = <<c, c>>
    /\ \E r \in RowsOf(q.id) : r.repetitions = 1 /\ r.correct_streak = 1

\* C14: every schedule written by upsert has nextReviewAt >= lastReview + 1
\* day, also when the clock advances between the clock read inside
\* computeNextSchedule and the read that produces lastReview.
C14_NextReviewADayAfterLastReview ==
  \A r \in schedules : r.next_review_at >= r.last_review[1] + Day

\* C15: the read-modify-write of one item's schedule is atomic: whenever
\* upsert runs for an item that already has a schedule, the previous state
\* it reads (repetitions, intervalDays, easeFactor, correctStreak) is the
\* state the last attempt on that item left in the store.
C15_ReadObservesLastWrite ==
  [][\A q \in Questions :
       (/\ attempts' = attempts + 1
        /\ outcome'.item = q.id
        /\ RowsOf(q.id) # {})
         => \A r \in RowsOf(q.id) :
              outcome'.previous =
                Some([repetitions |-> Some(r.repetitions),
                      intervalDays |-> Some(r.interval_days),
                      easeFactor |-> Some(r.ease_factor),
                      correctStreak |-> Some(r.correct_streak)])]_vars

\* the ids getDueQuestionIds() may list at this instant, without filter or limit
DueNow ==
  UNION {{result[i] : i \in DOMAIN result} :
           result \in DueQuestionIds(schedules, now,
                                     [subjectIds |-> Undefined, limit |-> Undefined])}

\* C22: in every state reachable by createQuestion, upsertQuestionSchedule and
\* deleteQuestion every stored schedule refers to a question that exists, and
\* a question that was deleted has no schedule left, so that getDueQuestionIds
\* never returns it.
C22_SchedulesReferToQuestions ==
  /\ \A r \in schedules : questions[r.item_id] = "stored"
  /\ \A id \in DOMAIN questions : questions[id] = "deleted" => id \notin DueNow

\* C23: one upsert uses one wall-clock value: lastReview and updatedAt are the
\* instant from which nextReviewAt = now + intervalDays days was computed.
\* One getDueByEnemy uses one value too: the urgency cutoff is taken 24 hours
\* before the instant of the due cutoff.
C23_SingleClockRead ==
  /\ (outcome.op = "upsertQuestionSchedule" /\ outcome.status = "returned") =>
       LET schedule == outcome.value[1]
       IN  /\ schedule.updatedAt = schedule.lastReview
           /\ schedule.nextReviewAt =
                schedule.lastReview[1] + schedule.intervalDays * Day
  /\ outcome.op = "getDueByEnemy" => outcome.urgentAt = outcome.at

\* C27: once upsertQuestionSchedule has returned for an item, the item is not
\* returned by getDueQuestionIds as long as the clock has not reached the
\* nextReviewAt the call returned, whether the item had no schedule before or
\* a schedule that was due.
C27_NotDueAfterUpsert ==
  (/\ outcome.op = "upsertQuestionSchedule"
   /\ outcome.status = "returned"
   /\ now < outcome.value[1].nextReviewAt)
    => outcome.item \notin DueNow

\* C28: every call of upsertQuestionSchedule that returns has invoked the
\* scheduleSave it obtained from the singleton, as createQuestion and
\* deleteQuestion do.
C28_UpsertSchedulesSave ==
  (/\ outcome.op \in {"upsertQuestionSchedule", "createQuestion", "deleteQuestion"}
   /\ outcome.status = "returned")
    => outcome.scheduleSave >= 1

-----------------------------------------------------------------------------
(* Properties of the due queries, checked under SpecQuery *)

\* the question schedules that are due at instant `at` and pass the filter
DueSchedules(at, subjectIds) ==
  {r \in schedules :
     /\ r.item_type = "question"
     /\ r.next_review_at <= at
     /\ (subjectIds # Undefined /\ subjectIds[1] # {})
          => (r.subject_id # Null /\ r.subject_id[1] \in subjectIds[1])}

\* C16: without a limit, getDueQuestionIds returns exactly the item ids of the
\* question schedules with nextReviewAt <= now (of the given subjects when a
\* non-empty subject set is passed), each id once, in ascending order of
\* nextReviewAt; no schedule with nextReviewAt > now is returned.
C16_DueIdsExactAndOrdered ==
  (outcome.op = "getDueQuestionIds" /\ outcome.options.limit = Undefined) =>
    LET ids == outcome.value
        due == DueSchedules(outcome.at, outcome.options.subjectIds)
    IN  /\ {ids[i] : i \in DOMAIN ids} = {r.item_id : r \in due}
        /\ \A i, j \in DOMAIN ids : i # j => ids[i] # ids[j]
        /\ \A i, j \in DOMAIN ids :
             i < j => \A ri, rj \in schedules :
                        (ri.item_id = ids[i] /\ rj.item_id = ids[j])
                          => ri.next_review_at <= rj.next_review_at
        /\ \A i \in DOMAIN ids : \A r \in schedules :
             r.item_id = ids[i] => r.next_review_at <= outcome.at

C16_Witness ==
  /\ outcome.op = "getDueQuestionIds"
  /\ outcome.options = [subjectIds |-> Some({"s1"}), limit |-> Undefined]
  /\ outcome.value = <<"q1", "q3">>
  /\ \E r \in schedules : r.item_id = "q3" /\ r.next_review_at = outcome.at
  /\ \E r \in schedules : r.item_id = "q2" /\ r.next_review_at < outcome.at

\* C17: whenever a limit is provided, zero included, the result has at most
\* limit elements and is the prefix of that length of the unlimited ordered
\* result.
C17_LimitTruncates ==
  (outcome.op = "getDueQuestionIds" /\ outcome.options.limit # Undefined) =>
    /\ Len(outcome.value) <= outcome.options.limit[1]
    /\ \E full \in DueQuestionIds(schedules, outcome.at,
                                  [outcome.options EXCEPT !.limit = Undefined]) :
         outcome.value = SubSeq(full, 1, Min(outcome.options.limit[1], Len(full)))

\* C18: getDueByEnemy groups the due schedules by (topicId, subjectId): each
\* pair appears in at most one result row, and that row's dueCount is the
\* number of due question schedules of the topic, whatever their lastRoom.
C18_OneRowPerTopicAndSubject ==
  outcome.op = "getDueByEnemy" =>
    LET rows == outcome.value
    IN  /\ \A i, j \in DOMAIN rows :
             (rows[i].topicId = rows[j].topicId
                /\ rows[i].subjectId = rows[j].subjectId) => i = j
        /\ \A i \in DOMAIN rows :
             rows[i].dueCount =
               Cardinality({r \in schedules :
                              /\ r.item_type = "question"
                              /\ r.topic_id = rows[i].topicId
                              /\ r.next_review_at <= outcome.at})

\* the due schedules counted in one row of getDueByEnemy's result
GroupOfRow(row) ==
  {r \in schedules :
     /\ r.item_type = "question"
     /\ r.topic_id = row.topicId
     /\ r.last_room = row.averageRoom
     /\ r.next_review_at <= outcome.at}

\* C19: in every row getDueByEnemy returns, urgentCount is the number of the
\* row's due schedules that are overdue by more than 24 hours at the instant
\* the urgency threshold is taken (nextReviewAt < that instant - 24h), and so
\* 0 <= urgentCount <= dueCount.
C19_UrgentCountWithinDueCount ==
  outcome.op = "getDueByEnemy" =>
    \A i \in DOMAIN outcome.value :
      LET row == outcome.value[i]
      IN  /\ row.urgentCount =
               Cardinality({r \in GroupOfRow(row) :
                              r.next_review_at < outcome.urgentAt - Day})
          /\ 0 <= row.urgentCount
          /\ row.urgentCount <= row.dueCount

C19_Witness ==
  /\ outcome.op = "getDueByEnemy"
  /\ \E i \in DOMAIN outcome.value :
       /\ outcome.value[i].urgentCount = 1
       /\ outcome.value[i].dueCount = 2
       /\ \E r \in GroupOfRow(outcome.value[i]) :
            r.next_review_at = outcome.urgentAt - Day

\* C20: getReviewStats reports averageStreak equal to the arithmetic mean of
\* correctStreak over all due schedules matching the filter (the sum of their
\* streaks is averageStreak * totalDue) and longestStreak equal to their
\* maximum, however the schedules are spread over rooms and subjects.
C20_StreakStatistics ==
  outcome.op = "getReviewStats" =>
    LET due == DueSchedules(outcome.at, outcome.subjectIds)
        streakData == outcome.value.streakData
    IN  /\ StreakSum(due) * streakData.averageStreak.den
             = streakData.averageStreak.num * outcome.value.totalDue
        /\ \A r \in due : r.correct_streak <= streakData.longestStreak
        /\ due # {} => \E r \in due : r.correct_streak = streakData.longestStreak

\* C21: getReviewStats reports nextReviewDate as the earliest upcoming
\* nextReviewAt: the minimum nextReviewAt over the matching schedules that are
\* still in the future; it is never at or before now, and it is present
\* whenever some matching schedule lies in the future.
C21_EarliestUpcomingReview ==
  outcome.op = "getReviewStats" =>
    LET upcoming == {r \in schedules :
                       /\ r.item_type = "question"
                       /\ r.next_review_at > outcome.at
                       /\ (outcome.subjectIds # Undefined /\ outcome.subjectIds[1] # {})
                            => (r.subject_id # Null
                                  /\ r.subject_id[1] \in outcome.subjectIds[1])}
        nextReviewDate == outcome.value.nextReviewDate
    IN  /\ nextReviewDate # Undefined => nextReviewDate[1] > outcome.at
        /\ upcoming # {} =>
             /\ nextReviewDate # Undefined
             /\ \E r \in upcoming : r.next_review_at = nextReviewDate[1]
             /\ \A r \in upcoming : nextReviewDate[1] <= r.next_review_at

RECURSIVE DueCountSum(_, _)
\* the sum of dueCount over the summaries of the groups in keys
DueCountSum(summaries, keys) ==
  IF keys = {} THEN 0
  ELSE LET k == CHOOSE x \in keys : TRUE
       IN  summaries[k].dueCount + DueCountSum(summaries, keys \ {k})

\* C30: for the same instant and the same subject filter the three due
\* queries agree: totalDue of getReviewStats is the number of ids that
\* getDueQuestionIds returns without a limit and the sum of the dueCount of
\* the summaries of getDueByEnemy, also when a topic was put under another
\* subject than the schedule's subject_id or when the topic of a schedule no
\* longer resolves.
C30_DueQueriesAgree ==
  \A subjectIds \in SubjectFilters :
    LET totalDue == ReviewStats(schedules, now, subjectIds).totalDue
    IN  /\ \A result \in DueQuestionIds(schedules, now,
                                       [subjectIds |-> subjectIds, limit |-> Undefined]) :
             Len(result) = totalDue
        /\ LET summaries == EnemySummaries(schedules, now, now - Day, subjectIds)
           IN  DueCountSum(summaries, DOMAIN summaries) = totalDue

-----------------------------------------------------------------------------
(* Properties of the engine, checked under SpecEngine *)

Done(fn) == call.fn = fn /\ call.done

\* 1.3 <= x <= 2.6, the bounds being the doubles the literals denote
WithinEaseBounds(x) ==
  /\ x.cent >= 130 /\ x.cent <= 260
  /\ x.cent = 130 => x.err >= DblLit(130).err
  /\ x.cent = 260 => x.err <= DblLit(260).err

\* the previous state a call of computeNextSchedule started from
CallPrev(field, default) ==
  IF call.arg.previousSchedule = Null THEN default
  ELSE call.arg.previousSchedule[1][field][1]

\* C2: updateEaseFactor returns a value in [1.3, 2.6] for every quality and
\* every current ease factor, also one outside that range, and so does the
\* easeFactor of every schedule computed in a chain of attempts that starts
\* from an absent schedule.
C2_EaseFactorWithinBounds ==
  /\ Done("updateEaseFactor") => WithinEaseBounds(call.res[1])
  /\ (Done("computeNextSchedule") /\ call.depth >= 1)
       => WithinEaseBounds(call.res[1].easeFactor)

C2_Witness ==
  /\ Done("updateEaseFactor")
  /\ call.arg.currentEF.cent = 100 /\ call.arg.quality = 1
  /\ call.res[1].cent = 130

\* C3: applyContextualAdjustments returns an integer >= 1 for every base
\* interval (zero and negative ones too), context and streak, and every
\* computed schedule has intervalDays >= 1.
C3_IntervalAtLeastOne ==
  /\ Done("applyContextualAdjustments") => call.res[1] \in Nat \ {0}
  /\ Done("computeNextSchedule") => call.res[1].intervalDays \in Nat \ {0}

C3_Witness ==
  /\ Done("applyContextualAdjustments")
  /\ call.arg.baseInterval = 0 - 2
  /\ call.res[1] = 1

\* C4: whatever the previous state, an incorrect attempt (mapped quality
\* below 3, for any tier and difficulty) yields repetitions = 0 and
\* intervalDays = 1.
C4_PoorQualityResets ==
  Done("computeNextSchedule") =>
    /\ ~call.arg.context.isCorrect => call.res[1].lastResult < 3
    /\ call.res[1].lastResult < 3 =>
         call.res[1].repetitions = 0 /\ call.res[1].intervalDays = 1

C4_Witness ==
  /\ Done("computeNextSchedule")
  /\ ~call.arg.context.isCorrect
  /\ CallPrev("repetitions", 0) = 2 /\ CallPrev("intervalDays", 1) = 10
  /\ call.res[1].repetitions = 0 /\ call.res[1].intervalDays = 1

\* C5: computeNextSchedule returns correctStreak = 0 for an incorrect attempt
\* and previous streak + 1 for a correct one (previous streak 0 when the
\* schedule is absent), whatever the confidence, tier and difficulty.
C5_StreakResetsOrIncrements ==
  Done("computeNextSchedule") =>
    call.res[1].correctStreak =
      IF call.arg.context.isCorrect THEN CallPrev("correctStreak", 0) + 1 ELSE 0

C5_Witness ==
  /\ Done("computeNextSchedule")
  /\ ~call.arg.context.isCorrect
  /\ CallPrev("correctStreak", 0) = 4
  /\ call.res[1].correctStreak = 0

\* C6: mapQuality follows the rule table (5, 4, 3 for a correct certeza,
\* duvida, chute; 4 for a correct unrecognized confidence; 1 for an incorrect
\* certeza; 2 for any other incorrect one), takes every value of 1..5, and is
\* below 3 exactly for incorrect attempts.
C6_QualityTable ==
  /\ Done("mapQuality") =>
       LET c == call.arg.isCorrect
           f == call.arg.confidence
           q == call.res[1]
       IN  /\ (c /\ f = "certeza") => q = 5
           /\ (c /\ f = "duvida") => q = 4
           /\ (c /\ f = "chute") => q = 3
           /\ (c /\ f = "outra") => q = 4
           /\ (~c /\ f = "certeza") => q = 1
           /\ (~c /\ f # "certeza") => q = 2
           /\ q < 3 <=> ~c
  /\ {mapQuality(c, f) : <<c, f>> \in BOOLEAN \X Confidences} = 1 .. 5

C6_Witness ==
  /\ Done("mapQuality")
  /\ call.arg.isCorrect /\ call.arg.confidence = "outra"
  /\ call.res[1] = 4

ScenarioA == [isCorrect |-> TRUE, confidence |-> "certeza",
              room |-> "amarela", difficulty |-> "medium"]

\* C7: Scenario A. No previous schedule, a correct answer with certainty in
\* the developing tier (amarela) at medium difficulty gives lastResult 5,
\* repetitions 1, correctStreak 1, intervalDays 5 and nextReviewAt five days
\* after now.
C7_ScenarioA ==
  (Done("computeNextSchedule") /\ call.arg.previousSchedule = Null
     /\ call.arg.context = ScenarioA) =>
    /\ call.res[1].lastResult = 5
    /\ call.res[1].repetitions = 1
    /\ call.res[1].correctStreak = 1
    /\ call.res[1].intervalDays = 5
    /\ call.res[1].nextReviewAt = now + 5 * Day

C7_Witness ==
  /\ Done("computeNextSchedule")
  /\ call.arg.previousSchedule = Null
  /\ call.arg.context = ScenarioA
  /\ now = 17
  /\ call.res[1].nextReviewAt = 17 + 120

ScenarioB == [isCorrect |-> TRUE, confidence |-> "certeza",
              room |-> "verde", difficulty |-> "easy"]

\* C8: Scenario B. From {repetitions 2, interval 10, ease 2.0, streak 4} a
\* correct answer with certainty in the mastered tier (verde) at easy
\* difficulty gives easeFactor 2.1, repetitions 3, correctStreak 5 and
\* intervalDays 30.
C8_ScenarioB ==
  (/\ Done("computeNextSchedule")
   /\ call.arg.previousSchedule # Null
   /\ CallPrev("repetitions", 0) = 2
   /\ CallPrev("intervalDays", 1) = 10
   /\ CallPrev("easeFactor", DblLit(250)) = DblLit(200)
   /\ CallPrev("correctStreak", 0) = 4
   /\ call.arg.context = ScenarioB) =>
    /\ call.res[1].easeFactor = DblLit(210)
    /\ call.res[1].repetitions = 3
    /\ call.res[1].correctStreak = 5
    /\ call.res[1].intervalDays = 30

C8_Witness ==
  /\ Done("computeNextSchedule")
  /\ call.depth = 0
  /\ CallPrev("repetitions", 0) = 2
  /\ CallPrev("intervalDays", 1) = 10
  /\ CallPrev("easeFactor", DblLit(250)).cent = 200
  /\ CallPrev("correctStreak", 0) = 4
  /\ call.arg.context = ScenarioB
  /\ call.res[1].intervalDays = 30

\* C9 as stated: getUrgencyLevel returns "overdue" for every due timestamp
\* strictly before now, however small the gap.
C9_AnyPastDueIsOverdue ==
  (Done("getUrgencyLevel") /\ call.arg.offset < 0) => call.res[1] = "overdue"

\* C9 amended: getUrgencyLevel returns "overdue" exactly when the due
\* timestamp lies one full day or more before now; a due timestamp less than
\* one day in the past is "due-today".
C9_OverdueFromOneDayPast ==
  Done("getUrgencyLevel") =>
    /\ call.res[1] = "overdue" <=> call.arg.offset <= 0 - Day
    /\ (call.arg.offset < 0 /\ call.arg.offset > 0 - Day) => call.res[1] = "due-today"

C9_Witness ==
  /\ Done("getUrgencyLevel")
  /\ call.arg.offset = 0 - 1
  /\ call.res[1] = "due-today"

\* ceil(offset / Day): the k with (k - 1) * Day < offset <= k * Day
CeilDays(offset) ==
  CHOOSE k \in 0 - 4 .. 5 : (k - 1) * Day < offset /\ offset <= k * Day

\* C10: with daysUntil = ceil((due - now) / 1 day), getUrgencyLevel returns
\* "due-today" when due = now (daysUntil 0), "due-soon" when due is exactly 1
\* or 2 days ahead (daysUntil 1 or 2), "scheduled" when due is 3 or more days
\* ahead (daysUntil >= 3); every due timestamp falls in exactly one of the
\* four buckets.
C10_UrgencyBuckets ==
  Done("getUrgencyLevel") =>
    LET offset == call.arg.offset
        d == CeilDays(offset)
        level == call.res[1]
    IN  /\ level \in {"overdue", "due-today", "due-soon", "scheduled"}
        /\ level = "overdue" <=> d < 0
        /\ level = "due-today" <=> d = 0
        /\ level = "due-soon" <=> d \in {1, 2}
        /\ level = "scheduled" <=> d >= 3
        /\ offset = 0 => level = "due-today"
        /\ offset \in {Day, 2 * Day} => level = "due-soon"
        /\ offset >= 3 * Day => level = "scheduled"

C10_Witness ==
  /\ Done("getUrgencyLevel")
  /\ call.arg.offset = 2 * Day
  /\ call.res[1] = "due-soon"

\* the interval before the streak bonus, from the multiplier tables of the
\* specification: round is Math.round of the double product
TierMultiplier(room) ==
  IF room = "triagem" THEN 60 ELSE IF room = "vermelha" THEN 70
  ELSE IF room = "amarela" THEN 85 ELSE IF room = "verde" THEN 115 ELSE 100

DifficultyMultiplier(difficulty) ==
  IF difficulty = "hard" THEN 85 ELSE IF difficulty = "easy" THEN 110 ELSE 100

BeforeBonus(baseInterval, context) ==
  Max(1, RoundAdjusted(baseInterval, TierMultiplier(context.room),
                       DifficultyMultiplier(context.difficulty)))

\* C24: calculateBaseInterval applies its rules in priority order: quality
\* below 3 gives 1 whatever the repetitions; otherwise repetitions 0 gives 1,
\* repetitions 1 gives 6 and repetitions >= 2 gives round(previousInterval *
\* easeFactor).  computeNextSchedule passes it the repetitions after the
\* update and the new ease factor, so the first successful attempt on a new
\* item has base interval 6.
C24_BaseIntervalPriority ==
  /\ Done("calculateBaseInterval") =>
       call.res[1] =
         IF call.arg.quality < 3 THEN 1
         ELSE IF call.arg.repetitions = 0 THEN 1
         ELSE IF call.arg.repetitions = 1 THEN 6
         ELSE RoundTimesDbl(call.arg.previousInterval, call.arg.easeFactor)
  /\ (Done("computeNextSchedule") /\ call.res[1].lastResult >= 3) =>
       /\ call.res[1].repetitions = CallPrev("repetitions", 0) + 1
       /\ call.res[1].intervalDays =
            applyContextualAdjustments(
              IF call.res[1].repetitions = 1 THEN 6
              ELSE RoundTimesDbl(CallPrev("intervalDays", 1), call.res[1].easeFactor),
              call.arg.context, call.res[1].correctStreak)
       /\ call.arg.previousSchedule = Null =>
            call.res[1].intervalDays =
              applyContextualAdjustments(6, call.arg.context, 1)

C24_Witness ==
  /\ Done("calculateBaseInterval")
  /\ call.arg.quality = 2 /\ call.arg.repetitions = 3
  /\ call.arg.previousInterval = 10
  /\ call.res[1] = 1

\* C25: the streak bonus (interval times 1.1, rounded) is applied exactly when
\* the attempt is correct, its quality is at least 4 and the streak after the
\* update is at least 3: a correct guess, an incorrect attempt and a streak
\* below 3 never get it, and a previous streak of 2 followed by a correct
\* certeza / duvida attempt does.
C25_StreakBonus ==
  /\ Done("applyContextualAdjustments") =>
       LET context == call.arg.context
           plain == BeforeBonus(call.arg.baseInterval, context)
           bonus == /\ context.isCorrect
                    /\ context.confidence # "chute"
                    /\ call.arg.correctStreak >= 3
       IN  call.res[1] = IF bonus THEN RoundDiv(plain * 11, 10) ELSE plain
  /\ (/\ Done("computeNextSchedule")
      /\ call.arg.previousSchedule # Null
      /\ CallPrev("correctStreak", 0) = 2
      /\ call.arg.context.isCorrect
      /\ call.arg.context.confidence \in {"certeza", "duvida"}) =>
       call.res[1].intervalDays =
         RoundDiv(11 * BeforeBonus(calculateBaseInterval(
                                     call.res[1].repetitions,
                                     CallPrev("intervalDays", 1),
                                     call.res[1].easeFactor,
                                     call.res[1].lastResult),
                                   call.arg.context), 10)

C25_Witness ==
  /\ Done("computeNextSchedule")
  /\ call.arg.previousSchedule # Null
  /\ CallPrev("correctStreak", 0) = 2
  /\ CallPrev("repetitions", 0) = 1
  /\ call.arg.context = [isCorrect |-> TRUE, confidence |-> "duvida",
                         room |-> "outra", difficulty |-> "medium"]
  /\ call.res[1].correctStreak = 3
  /\ call.res[1].intervalDays > RoundTimesDbl(CallPrev("intervalDays", 1),
                                              call.res[1].easeFactor)

\* C26: before the streak bonus the adjusted interval is max(1, round(base *
\* tier multiplier * difficulty multiplier)) with tier multipliers triagem
\* 0.6, vermelha 0.7, amarela 0.85, verde 1.15 and difficulty multipliers
\* hard 0.85, easy 1.1, medium 1.0; an unrecognized tier or difficulty is no
\* error and multiplies by 1.0.
C26_MultiplierTables ==
  (/\ Done("applyContextualAdjustments")
   /\ ~(call.arg.context.isCorrect /\ call.arg.correctStreak >= 3)) =>
    /\ call.res[1] = BeforeBonus(call.arg.baseInterval, call.arg.context)
    /\ (call.arg.context.room = "outra" /\ call.arg.context.difficulty = "other")
         => call.res[1] = Max(1, call.arg.baseInterval)

C26_Witness ==
  /\ Done("applyContextualAdjustments")
  /\ call.arg.context.room = "outra" /\ call.arg.context.difficulty = "other"
  /\ call.arg.correctStreak = 0
  /\ call.arg.baseInterval = 10
  /\ call.res[1] = 10

\* C29: in every schedule produced by a sequence of computeNextSchedule steps
\* that starts from an absent schedule, repetitions equals correctStreak:
\* both are reset to 0 by exactly the incorrect attempts and incremented by 1
\* by exactly the correct ones.
C29_RepetitionsEqualStreak ==
  (Done("computeNextSchedule") /\ call.depth >= 1) =>
    /\ call.res[1].repetitions = call.res[1].correctStreak
    /\ call.res[1].repetitions =
         IF call.arg.context.isCorrect THEN CallPrev("repetitions", 0) + 1 ELSE 0

C29_Witness ==
  /\ Done("computeNextSchedule")
  /\ call.depth = 3
  /\ call.arg.context.isCorrect /\ call.arg.context.confidence = "chute"
  /\ call.res[1].repetitions = 3
  /\ call.res[1].correctStreak = 3

====
